---- MODULE Spec2Model ----
(***************************************************************************)
(* Eco-Query extension: the estimation engine of the content script        *)
(* (analyzeQueryComplexity, estimateResponseTokens,                        *)
(* calculateEnergyFootprint, getEnvironmentalContext) and the part of      *)
(* showPopup that turns its results into the displayed carbon figures.     *)
(*                                                                         *)
(* Numbers.  JavaScript numbers are modelled by exact fixed-point          *)
(* integers:                                                               *)
(*   complexity        in hundredths       (1.0 -> 100, 4.0 -> 400)        *)
(*   energy            in milliwatt-hours  (0.04 Wh -> 40)                 *)
(*   carbonGrams       in micrograms       (mWh * 367)                     *)
(*   intensityMultiplier in tenths         (0.8 -> 8, 1.3 -> 13)           *)
(*   toFixed(2) values in hundredths of a gram                             *)
(* Strings are sequences of one-character strings.                         *)
(***************************************************************************)
EXTENDS Integers, Sequences, FiniteSets, TLC

VARIABLES
    ENERGY_MODELS,          \* the mutable configuration object (content.js:60)
    arg,                    \* input of the engine function under test
    ret,                    \* its result
    query,                  \* showPopup's argument
    hour,                   \* new Date().getHours() as read by the popup
    energyData,             \* showPopup: calculateEnergyFootprint(query)
    envContext,             \* showPopup: getEnvironmentalContext()
    adjustedGoogleCarbon,   \* showPopup: displayed carbon figure, search
    adjustedChatGPTCarbon,  \* showPopup: displayed carbon figure, assistant
    pinned,                 \* an earlier popup evaluation, kept for comparison
    between,                \* a popup with other inputs was opened since
    inputField,             \* the host's #prompt-textarea, or None when absent
    activeElement,          \* document.activeElement: the input or something else
    overlays,               \* the #ai-energy-overlay elements of the body, in order
    documentListeners,      \* listeners interceptInputEvents has added to document
    effects,                \* what the last task (gesture and handlers) did
    firstpopup              \* the legacy content script's state, None where it is not loaded

vars == <<ENERGY_MODELS, arg, ret, query, hour, energyData, envContext,
          adjustedGoogleCarbon, adjustedChatGPTCarbon, pinned, between,
          inputField, activeElement, overlays, documentListeners, effects, firstpopup>>

engineVars == <<ENERGY_MODELS, arg, ret, query, hour, energyData, envContext,
                adjustedGoogleCarbon, adjustedChatGPTCarbon, pinned, between>>

pageVars == <<inputField, activeElement, overlays, documentListeners, effects, firstpopup>>

\* no value yet
None == [none |-> TRUE]

----------------------------------------------------------------------------
(* Bounds of the model *)

\* number of one-letter filler words appended to the longest queries
MaxFill == 100

\* largest first energy (mWh) handed to the score mapping
MaxEnergy == 4100

\* hours handed to the context provider range over -HourSlack .. 23+HourSlack
HourSlack == 24

\* overlays in the document at once
MaxOverlays == 2

\* keydown (and click) listeners registered on document
MaxListeners == 4

----------------------------------------------------------------------------
(* Characters and strings *)

ToLower ==
    [c \in {"A","B","C","D","E","F","G","H","I","J","K","L","M",
            "N","O","P","Q","R","S","T","U","V","W","X","Y","Z"} |->
        CASE c = "A" -> "a" [] c = "B" -> "b" [] c = "C" -> "c" [] c = "D" -> "d"
          [] c = "E" -> "e" [] c = "F" -> "f" [] c = "G" -> "g" [] c = "H" -> "h"
          [] c = "I" -> "i" [] c = "J" -> "j" [] c = "K" -> "k" [] c = "L" -> "l"
          [] c = "M" -> "m" [] c = "N" -> "n" [] c = "O" -> "o" [] c = "P" -> "p"
          [] c = "Q" -> "q" [] c = "R" -> "r" [] c = "S" -> "s" [] c = "T" -> "t"
          [] c = "U" -> "u" [] c = "V" -> "v" [] c = "W" -> "w" [] c = "X" -> "x"
          [] c = "Y" -> "y" [] c = "Z" -> "z"]

\* case folding of the /i flag
Lower(c) == IF c \in DOMAIN ToLower THEN ToLower[c] ELSE c

\* the characters \s matches (those the model's queries use)
IsSpace(c) == c \in {" ", "\t", "\n"}

\* String.prototype.trim
Trim(s) ==
    LET inked == {i \in 1..Len(s) : ~IsSpace(s[i])}
    IN  IF inked = {} THEN <<>>
        ELSE LET first == CHOOSE i \in inked : \A j \in inked : i <= j
                 last  == CHOOSE i \in inked : \A j \in inked : j <= i
             IN  SubSeq(s, first, last)

\* s.split(/\s+/).length: one piece more than there are maximal whitespace
\* runs (a run at either end yields an empty piece; "" yields [""])
SplitLength(s) ==
    1 + Cardinality({i \in 1..Len(s) : IsSpace(s[i]) /\ (i = 1 \/ ~IsSpace(s[i-1]))})

\* /p1|p2|.../i.test(s): some alternative occurs in s, ignoring case
RegexTest(patterns, s) ==
    LET low == [i \in 1..Len(s) |-> Lower(s[i])]
    IN  \E p \in patterns :
            \E i \in 1..(Len(s) - Len(p) + 1) :
                \A j \in 1..Len(p) : low[i + j - 1] = p[j]

CodePattern ==
    { <<"c","o","d","e">>, <<"p","r","o","g","r","a","m">>, <<"s","c","r","i","p","t">>,
      <<"f","u","n","c","t","i","o","n">>, <<"d","e","b","u","g">>, <<"f","i","x">>,
      <<"a","l","g","o","r","i","t","h","m">> }

CreativePattern ==
    { <<"w","r","i","t","e">>, <<"c","r","e","a","t","e">>, <<"s","t","o","r","y">>,
      <<"p","o","e","m">>, <<"e","s","s","a","y">>, <<"d","r","a","f","t">>,
      <<"d","e","s","i","g","n">> }

AnalysisPattern_withNoun ==
    { <<"a","n","a","l","y","z","e">>, <<"a","n","a","l","y","s","i","s">>,
      <<"e","x","p","l","a","i","n">>,
      <<"c","o","m","p","a","r","e">>, <<"s","u","m","m","a","r","i","z","e">>,
      <<"b","r","e","a","k","d","o","w","n">>, <<"r","e","s","e","a","r","c","h">> }

AnalysisPattern ==
    { <<"a","n","a","l","y","z","e">>, <<"e","x","p","l","a","i","n">>,
      <<"c","o","m","p","a","r","e">>, <<"s","u","m","m","a","r","i","z","e">>,
      <<"b","r","e","a","k","d","o","w","n">>, <<"r","e","s","e","a","r","c","h">> }

ComplexPattern ==
    { <<"c","o","m","p","l","e","x">>, <<"d","e","t","a","i","l","e","d">>,
      <<"c","o","m","p","r","e","h","e","n","s","i","v","e">>,
      <<"t","h","o","r","o","u","g","h">>, <<"i","n","-","d","e","p","t","h">> }

CodeTokensPattern ==
    { <<"c","o","d","e">>, <<"p","r","o","g","r","a","m">>, <<"s","c","r","i","p","t">> }

ListTokensPattern ==
    { <<"l","i","s","t">>, <<"s","t","e","p","s">>, <<"t","u","t","o","r","i","a","l">> }

ShortTokensPattern ==
    { <<"y","e","s">>, <<"n","o">>, <<"s","i","m","p","l","e">>, <<"q","u","i","c","k">> }

----------------------------------------------------------------------------
(* Inputs *)

\* Words the queries are built from.  By construction of the patterns:
\*   1 "fix"       code/debug family only
\*   2 "script"    code/debug family, and the x1.5 token pattern
\*   3 "Write"     creative family (upper-case initial)
\*   4 "explain"   analytical family
\*   5 "in-depth"  depth qualifier family
\*   6 "list"      x1.2 token pattern
\*   7 "know"      x0.3 token pattern (contains "no")
\*   8 "analysis"  no family, no token pattern
Vocabulary ==
    << <<"f","i","x">>,
       <<"s","c","r","i","p","t">>,
       <<"W","r","i","t","e">>,
       <<"e","x","p","l","a","i","n">>,
       <<"i","n","-","d","e","p","t","h">>,
       <<"l","i","s","t">>,
       <<"k","n","o","w">>,
       <<"a","n","a","l","y","s","i","s">> >>

Filler == <<"a">>

FillCounts == {0, MaxFill \div 2, MaxFill}

\* the chosen vocabulary words in vocabulary order, then n filler words
RECURSIVE WordsOf(_, _, _)
WordsOf(chosen, i, n) ==
    IF i <= Len(Vocabulary)
    THEN IF i \in chosen
         THEN <<Vocabulary[i]>> \o WordsOf(chosen, i + 1, n)
         ELSE WordsOf(chosen, i + 1, n)
    ELSE [k \in 1..n |-> Filler]

\* Array.prototype.join, halving the list
RECURSIVE Join(_, _)
Join(ws, sep) ==
    IF ws = <<>> THEN <<>>
    ELSE IF Len(ws) = 1 THEN ws[1]
    ELSE LET half == Len(ws) \div 2
         IN  Join(SubSeq(ws, 1, half), sep) \o sep \o Join(SubSeq(ws, half + 1, Len(ws)), sep)

\* the query text: words separated by one blank, or (padded) by runs of mixed
\* whitespace with whitespace at both ends
Render(chosen, n, padded) ==
    IF padded
    THEN <<" ", "\t">> \o Join(WordsOf(chosen, 1, n), <<" ", "\n", " ">>) \o <<"\n", " ">>
    ELSE Join(WordsOf(chosen, 1, n), <<" ">>)

\* complexity values handed to estimateResponseTokens: 1.0, 1.25, ..., 4.0
ComplexityGrid == {100 + 25 * k : k \in 0..12}

QueryArgs ==
    { a \in [kind : {"query"}, words : SUBSET (1..Len(Vocabulary)),
             fill : FillCounts, padded : BOOLEAN] :
        a.padded => a.fill = 0 }

TokenArgs ==
    { a \in [kind : {"tokens"}, words : SUBSET (1..Len(Vocabulary)),
             fill : FillCounts, padded : BOOLEAN, complexity : ComplexityGrid] :
        /\ a.padded => a.fill = 0
        /\ a.fill # 0 => a.complexity \in {100, 250, 400} }

EnergyGaps == {0, 1, 100, 11000}

EnergyArgs ==
    { [kind |-> "energy", e1 |-> e, e2 |-> e + g] : e \in 0..MaxEnergy, g \in EnergyGaps }

HourArgs == { [kind |-> "hour", hour |-> h] : h \in (0 - HourSlack)..(23 + HourSlack) }

\* "hi"
QueryHi == <<"h", "i">>

\* "write a detailed comprehensive analysis of code performance"
QueryScenarioB ==
    <<"w","r","i","t","e"," ","a"," ","d","e","t","a","i","l","e","d"," ",
      "c","o","m","p","r","e","h","e","n","s","i","v","e"," ",
      "a","n","a","l","y","s","i","s"," ","o","f"," ","c","o","d","e"," ",
      "p","e","r","f","o","r","m","a","n","c","e">>

\* "Write a Python script to analyze CSV data and create visualizations"
QueryReadme ==
    <<"W","r","i","t","e"," ","a"," ","P","y","t","h","o","n"," ",
      "s","c","r","i","p","t"," ","t","o"," ","a","n","a","l","y","z","e"," ",
      "C","S","V"," ","d","a","t","a"," ","a","n","d"," ","c","r","e","a","t","e"," ",
      "v","i","s","u","a","l","i","z","a","t","i","o","n","s">>

\* the queries submitted while the popup is in use
SessionQueries ==
    { <<>>, QueryHi, QueryScenarioB, QueryReadme,
      Render({2, 7}, 0, FALSE), Render({4, 6}, 0, TRUE) }

\* hours of the day at which popups are opened: every bucket of the context
\* provider, with both ends of each
Hours == {9, 10, 13, 16, 17, 18, 22, 23}

----------------------------------------------------------------------------
(* The engine *)

\* F applied to the value of v: v is evaluated once, whatever F does with it
Then(v, F(_)) == CHOOSE r \in {F(x) : x \in {v}} : TRUE

Min(a, b) == IF a <= b THEN a ELSE b
Max(a, b) == IF a >= b THEN a ELSE b

\* Math.round of the non-negative rational num/den (ties go up)
MathRound(num, den) == (2 * num + den) \div (2 * den)

analyzeQueryComplexity_uncapped(q) ==
    LET wordCount == SplitLength(Trim(q))
    IN  100
          + (IF wordCount > 50 THEN 50 ELSE 0)
          + (IF wordCount > 100 THEN 100 ELSE 0)
          + (IF RegexTest(CodePattern, q) THEN 150 ELSE 0)
          + (IF RegexTest(CreativePattern, q) THEN 100 ELSE 0)
          + (IF RegexTest(AnalysisPattern, q) THEN 50 ELSE 0)
          + (IF RegexTest(ComplexPattern, q) THEN 50 ELSE 0)

analyzeQueryComplexity_elseIf(q) ==
    LET wordCount == SplitLength(Trim(q))
    IN  Min(400,
            100
              + (IF wordCount > 100 THEN 100 ELSE IF wordCount > 50 THEN 50 ELSE 0)
              + (IF RegexTest(CodePattern, q) THEN 150 ELSE 0)
              + (IF RegexTest(CreativePattern, q) THEN 100 ELSE 0)
              + (IF RegexTest(AnalysisPattern, q) THEN 50 ELSE 0)
              + (IF RegexTest(ComplexPattern, q) THEN 50 ELSE 0))

\* complexity in hundredths
analyzeQueryComplexity(q) ==
    LET wordCount          == SplitLength(Trim(q))
        hasCodeRequest     == RegexTest(CodePattern, q)
        hasCreativeRequest == RegexTest(CreativePattern, q)
        hasAnalysisRequest == RegexTest(AnalysisPattern, q)
        hasComplexConcepts == RegexTest(ComplexPattern, q)
        c0 == 100
        c1 == IF wordCount > 50 THEN c0 + 50 ELSE c0
        c2 == IF wordCount > 100 THEN c1 + 100 ELSE c1
        c3 == IF hasCodeRequest THEN c2 + 150 ELSE c2
        c4 == IF hasCreativeRequest THEN c3 + 100 ELSE c3
        c5 == IF hasAnalysisRequest THEN c4 + 50 ELSE c4
        c6 == IF hasComplexConcepts THEN c5 + 50 ELSE c5
    IN  Min(c6, 400)

estimateResponseTokens_exclusive(q, complexity) ==
    IF RegexTest(CodeTokensPattern, q) THEN MathRound(500 * complexity * 15, 1000)
    ELSE IF RegexTest(ListTokensPattern, q) THEN MathRound(500 * complexity * 12, 1000)
    ELSE IF RegexTest(ShortTokensPattern, q) THEN MathRound(500 * complexity * 3, 1000)
    ELSE MathRound(500 * complexity, 100)

\* Math.round(500 * complexity [* 1.5] [* 1.2] [* 0.3]); complexity in hundredths
estimateResponseTokens(q, complexity) ==
    LET baseTokens == 500
        n0 == baseTokens * complexity
        d0 == 100
        isCode  == RegexTest(CodeTokensPattern, q)
        isList  == RegexTest(ListTokensPattern, q)
        isShort == RegexTest(ShortTokensPattern, q)
        n1 == IF isCode THEN n0 * 15 ELSE n0
        d1 == IF isCode THEN d0 * 10 ELSE d0
        n2 == IF isList THEN n1 * 12 ELSE n1
        d2 == IF isList THEN d1 * 10 ELSE d1
        n3 == IF isShort THEN n2 * 3 ELSE n2
        d3 == IF isShort THEN d2 * 10 ELSE d2
    IN  MathRound(n3, d3)

\* 10^n
RECURSIVE Pow10(_)
Pow10(n) == IF n = 0 THEN 1 ELSE 10 * Pow10(n - 1)

\* 1 + 2*log10(energy/base) <= s, for s in 1..5, without logarithms:
\* energy^2 <= base^2 * 10^(s-1)
LogScoreAtMost(energy, base, s) ==
    IF (s - 1) % 2 = 0
    THEN energy <= base * Pow10((s - 1) \div 2)
    ELSE energy * energy <= 10 * (base * Pow10((s - 2) \div 2)) * (base * Pow10((s - 2) \div 2))

\* Math.max(1, Math.min(6, Math.ceil(1 + Math.log10(energy / base) * 2)))
\* (energy = 0 gives -Infinity, which the outer max turns into 1)
ClampedLogScore(energy, base) ==
    IF \E s \in 1..5 : LogScoreAtMost(energy, base, s)
    THEN CHOOSE s \in 1..5 :
            /\ LogScoreAtMost(energy, base, s)
            /\ \A t \in 1..(s - 1) : ~LogScoreAtMost(energy, base, t)
    ELSE 6

googleScoreOf_floor(googleEnergy) ==
    IF LogScoreAtMost(googleEnergy, ENERGY_MODELS.google.baseEnergyWh, 1) THEN 1
    ELSE ClampedLogScore(googleEnergy, ENERGY_MODELS.google.baseEnergyWh) - 1

googleScoreOf(googleEnergy) ==
    ClampedLogScore(googleEnergy, ENERGY_MODELS.google.baseEnergyWh)

chatgptScoreOf_ownBase(chatgptEnergy) ==
    ClampedLogScore(chatgptEnergy, ENERGY_MODELS.chatgpt.baseEnergyWh)

chatgptScoreOf_unclamped(chatgptEnergy) ==
    IF \E s \in 1..8 : LogScoreAtMost(chatgptEnergy, ENERGY_MODELS.google.baseEnergyWh, s)
    THEN CHOOSE s \in 1..8 :
            /\ LogScoreAtMost(chatgptEnergy, ENERGY_MODELS.google.baseEnergyWh, s)
            /\ \A t \in 1..(s - 1) :
                 ~LogScoreAtMost(chatgptEnergy, ENERGY_MODELS.google.baseEnergyWh, t)
    ELSE 9

chatgptScoreOf(chatgptEnergy) ==
    ClampedLogScore(chatgptEnergy, ENERGY_MODELS.google.baseEnergyWh)

\* g CO2 per kWh
GRID_INTENSITY_G_PER_KWH == 367

\* (energyWh / 1000) * GRID_INTENSITY_G_PER_KWH, in micrograms for energy in mWh
carbonGramsOf(energy) == energy * GRID_INTENSITY_G_PER_KWH

googleEnergyOf_noFloor(complexity) ==
    (ENERGY_MODELS.google.baseEnergyWh * complexity) \div 200

\* ENERGY_MODELS.google.baseEnergyWh * Math.max(1, complexity * 0.5)
googleEnergyOf(complexity) ==
    (ENERGY_MODELS.google.baseEnergyWh * Max(200, complexity)) \div 200

chatgptEnergyOf_noBase(estimatedTokens) ==
    estimatedTokens * ENERGY_MODELS.chatgpt.energyPerToken

\* chatgptBaseEnergy + estimatedTokens * ENERGY_MODELS.chatgpt.energyPerToken
chatgptEnergyOf(estimatedTokens) ==
    ENERGY_MODELS.chatgpt.baseEnergyWh
      + estimatedTokens * ENERGY_MODELS.chatgpt.energyPerToken

\* The two string analyses of the session's queries, tabulated so that they
\* are evaluated once per query rather than once per step (@@ makes the table
\* an explicit function).
SessionComplexity == [q \in SessionQueries |-> analyzeQueryComplexity(q)] @@ <<>>
SessionTokens ==
    [q \in SessionQueries |-> estimateResponseTokens(q, SessionComplexity[q])] @@ <<>>

\* The consts of calculateEnergyFootprint, each computed once and in the
\* code's order.
calculateEnergyFootprint(q) ==
    Then(IF q \in SessionQueries THEN SessionComplexity[q] ELSE analyzeQueryComplexity(q),
         LAMBDA complexity :
    Then(IF q \in SessionQueries THEN SessionTokens[q]
         ELSE estimateResponseTokens(q, complexity),
         LAMBDA estimatedTokens :
    Then(googleEnergyOf(complexity),
         LAMBDA googleEnergy :
    Then(chatgptEnergyOf(estimatedTokens),
         LAMBDA chatgptEnergy :
            [ google |->
                [ energyWh        |-> googleEnergy,
                  carbonGrams     |-> carbonGramsOf(googleEnergy),
                  score           |-> googleScoreOf(googleEnergy),
                  estimatedTokens |-> 0,
                  complexity      |-> complexity ],
              chatgpt |->
                [ energyWh        |-> chatgptEnergy,
                  carbonGrams     |-> carbonGramsOf(chatgptEnergy),
                  score           |-> chatgptScoreOf(chatgptEnergy),
                  estimatedTokens |-> estimatedTokens,
                  complexity      |-> complexity ] ]))))

getEnvironmentalContext_exclusive(h) ==
    [ gridIntensity       |-> IF h >= 10 /\ h < 16 THEN "Lower (Solar Peak)"
                              ELSE IF h >= 18 /\ h < 22 THEN "Higher (Peak Demand)"
                              ELSE "Medium",
      intensityMultiplier |-> IF h >= 10 /\ h < 16 THEN 8
                              ELSE IF h >= 18 /\ h < 22 THEN 13
                              ELSE 10,
      timeContext         |-> IF h >= 10 /\ h <= 16 THEN "Solar energy is more available now"
                              ELSE IF h >= 18 /\ h <= 22 THEN "Peak energy demand period"
                              ELSE "Standard grid mix" ]

\* h is new Date().getHours(); intensityMultiplier in tenths
getEnvironmentalContext(h) ==
    [ gridIntensity       |-> IF h >= 10 /\ h <= 16 THEN "Lower (Solar Peak)"
                              ELSE IF h >= 18 /\ h <= 22 THEN "Higher (Peak Demand)"
                              ELSE "Medium",
      intensityMultiplier |-> IF h >= 10 /\ h <= 16 THEN 8
                              ELSE IF h >= 18 /\ h <= 22 THEN 13
                              ELSE 10,
      timeContext         |-> IF h >= 10 /\ h <= 16 THEN "Solar energy is more available now"
                              ELSE IF h >= 18 /\ h <= 22 THEN "Peak energy demand period"
                              ELSE "Standard grid mix" ]

\* Number.prototype.toFixed(2) of tenthMicrograms * 10^-7 g, in hundredths of a gram
toFixed2(tenthMicrograms) == (tenthMicrograms + 50000) \div 100000

adjustedCarbon_unadjusted(carbonGrams, ctx) == toFixed2(carbonGrams * 10)

\* (carbonGrams * envContext.intensityMultiplier).toFixed(2)
adjustedCarbon(carbonGrams, ctx) == toFixed2(carbonGrams * ctx.intensityMultiplier)

\* Number.prototype.toFixed(1) of thousandths * 10^-3, in tenths
toFixed1(thousandths) == (thousandths + 50) \div 100

\* the "Energy consumption:" line of the popup's explanation, the same for
\* both services: ${(data.energyWh * 1000).toFixed(1)} Wh
generateConciseExplanation(service, data) ==
    [ energyTenths |-> toFixed1((data.energyWh * 1000)), unit |-> "Wh" ]

generateDetailedCalculation_sharedAnchor(service, data, ctx) ==
    LET totalEnergy == IF service = "google" THEN googleEnergyOf(data.complexity)
                       ELSE chatgptEnergyOf(data.estimatedTokens)
    IN  [ totalEnergy      |-> totalEnergy,
          finalCarbon      |-> adjustedCarbon(carbonGramsOf(totalEnergy), ctx),
          scoreCalculation |-> ClampedLogScore(totalEnergy, ENERGY_MODELS.google.baseEnergyWh) ]

\* generateDetailedCalculation(service, data, complexityScore, envContext):
\* the figures of the "Calculation Breakdown"; each branch recomputes the
\* energy from data and scores it against baseEnergy, the service's own base
generateDetailedCalculation(service, data, ctx) ==
    LET baseEnergy  == IF service = "google" THEN ENERGY_MODELS.google.baseEnergyWh
                       ELSE ENERGY_MODELS.chatgpt.baseEnergyWh
        totalEnergy == IF service = "google"
                       THEN (baseEnergy * Max(200, data.complexity)) \div 200
                       ELSE baseEnergy + data.estimatedTokens * ENERGY_MODELS.chatgpt.energyPerToken
    IN  [ totalEnergy      |-> totalEnergy,
          finalCarbon      |-> adjustedCarbon(carbonGramsOf(totalEnergy), ctx),
          scoreCalculation |-> ClampedLogScore(totalEnergy, baseEnergy) ]

----------------------------------------------------------------------------
(* State machine *)

EnergyModelsInit ==
    [ google  |-> [ baseEnergyWh |-> 40 ],
      chatgpt |-> [ baseEnergyWh |-> 500, tokensPerQuery |-> 500, energyPerToken |-> 4 ] ]

\* the popup's engine results
Evaluation ==
    [ query |-> query, hour |-> hour, energyData |-> energyData, envContext |-> envContext,
      adjustedGoogleCarbon |-> adjustedGoogleCarbon,
      adjustedChatGPTCarbon |-> adjustedChatGPTCarbon ]

NoPopup ==
    /\ query = <<>>
    /\ hour = 0
    /\ energyData = None
    /\ envContext = None
    /\ adjustedGoogleCarbon = None
    /\ adjustedChatGPTCarbon = None
    /\ pinned = None
    /\ between = FALSE

\* the page when the content script has run: the host's input is there and
\* empty, nothing of the extension is displayed, and the script's last line
\* has called interceptInputEvents once
PageLoaded ==
    /\ inputField = [innerText |-> <<>>]
    /\ activeElement = "body"
    /\ overlays = <<>>
    /\ documentListeners = [keydown |-> 1, click |-> 1]
    /\ firstpopup = None
    /\ effects = [ op |-> "load", event |-> None,
                   before |-> [ inputField |-> None, activeElement |-> "body", popups |-> 0,
                                layout |-> None ],
                   clicked |-> None, handlersRun |-> 0,
                   defaultPrevented |-> FALSE, shown |-> <<>>, opened |-> <<>>,
                   sent |-> <<>>, dispatched |-> <<>>, toHost |-> <<>>, error |-> FALSE ]

Init ==
    /\ ENERGY_MODELS = EnergyModelsInit
    /\ arg = None
    /\ ret = None
    /\ NoPopup
    /\ PageLoaded

showPopup_recalibrating(q, h) ==
    /\ query' = q
    /\ hour' = h
    /\ energyData' = calculateEnergyFootprint(q)
    /\ envContext' = getEnvironmentalContext(h)
    /\ adjustedGoogleCarbon' =
          adjustedCarbon(energyData'.google.carbonGrams, envContext')
    /\ adjustedChatGPTCarbon' =
          adjustedCarbon(energyData'.chatgpt.carbonGrams, envContext')
    /\ ENERGY_MODELS' =
          [ENERGY_MODELS EXCEPT !.chatgpt.tokensPerQuery = energyData'.chatgpt.estimatedTokens,
                                !.chatgpt.baseEnergyWh = @ + 100]
    /\ between' = (between \/ (pinned # None /\ (pinned.query # q \/ pinned.hour # h)))
    /\ UNCHANGED <<arg, ret, pinned>>

showPopup_scoreFromAdjusted(q, h) ==
    /\ query' = q
    /\ hour' = h
    /\ envContext' = getEnvironmentalContext(h)
    /\ energyData' =
          LET data  == calculateEnergyFootprint(q)
              times == envContext'.intensityMultiplier
          IN  [data EXCEPT
                 !.google.carbonGrams = (@ * times) \div 10,
                 !.chatgpt.carbonGrams = (@ * times) \div 10,
                 !.google.score = googleScoreOf((data.google.energyWh * times) \div 10),
                 !.chatgpt.score = chatgptScoreOf((data.chatgpt.energyWh * times) \div 10)]
    /\ adjustedGoogleCarbon' = toFixed2(energyData'.google.carbonGrams * 10)
    /\ adjustedChatGPTCarbon' = toFixed2(energyData'.chatgpt.carbonGrams * 10)
    /\ between' = (between \/ (pinned # None /\ (pinned.query # q \/ pinned.hour # h)))
    /\ UNCHANGED <<ENERGY_MODELS, arg, ret, pinned>>

\* showPopup(query), called while the clock reads hour h: the engine
\* evaluation and the displayed carbon figures.  Nothing is written to
\* ENERGY_MODELS.
showPopup(q, h) ==
    /\ query' = q
    /\ hour' = h
    /\ energyData' = calculateEnergyFootprint(q)
    /\ envContext' = getEnvironmentalContext(h)
    /\ adjustedGoogleCarbon' =
          adjustedCarbon(energyData'.google.carbonGrams, envContext')
    /\ adjustedChatGPTCarbon' =
          adjustedCarbon(energyData'.chatgpt.carbonGrams, envContext')
    /\ between' = (between \/ (pinned # None /\ (pinned.query # q \/ pinned.hour # h)))
    /\ UNCHANGED <<ENERGY_MODELS, arg, ret, pinned>>

\* a submit gesture with q in the host input
Submit ==
    /\ \E q \in SessionQueries, h \in Hours : showPopup(q, h)
    /\ UNCHANGED pageVars

\* the observer keeps the evaluation now displayed, to compare later ones with
Pin ==
    /\ energyData # None
    /\ pinned' = Evaluation
    /\ between' = FALSE
    /\ UNCHANGED <<ENERGY_MODELS, arg, ret, query, hour, energyData, envContext,
                   adjustedGoogleCarbon, adjustedChatGPTCarbon>>
    /\ UNCHANGED pageVars

Next == Submit \/ Pin

Spec == Init /\ [][Next]_vars

----------------------------------------------------------------------------
(* The engine's functions, each applied to one input *)

InitEngine ==
    /\ ENERGY_MODELS = EnergyModelsInit
    /\ arg \in QueryArgs \cup TokenArgs \cup EnergyArgs \cup HourArgs
    /\ ret = None
    /\ query = IF arg.kind \in {"query", "tokens"}
               THEN Render(arg.words, arg.fill, arg.padded) ELSE <<>>
    /\ hour = IF arg.kind = "hour" THEN arg.hour ELSE 0
    /\ energyData = None
    /\ envContext = None
    /\ adjustedGoogleCarbon = None
    /\ adjustedChatGPTCarbon = None
    /\ pinned = None
    /\ between = FALSE
    /\ PageLoaded

Return(fn, value) ==
    /\ ret = None
    /\ ret' = [fn |-> fn, value |-> value]
    /\ UNCHANGED <<ENERGY_MODELS, arg, query, hour, energyData, envContext,
                   adjustedGoogleCarbon, adjustedChatGPTCarbon, pinned, between>>
    /\ UNCHANGED pageVars

AnalyzeQueryComplexity ==
    /\ arg.kind = "query"
    /\ Return("analyzeQueryComplexity", analyzeQueryComplexity(query))

EstimateResponseTokens ==
    /\ arg.kind = "tokens"
    /\ Return("estimateResponseTokens", estimateResponseTokens(query, arg.complexity))

CalculateEnergyFootprint ==
    /\ arg.kind = "query"
    /\ Return("calculateEnergyFootprint", calculateEnergyFootprint(query))

\* lines 130-131 applied to two energies each
CalculateScores ==
    /\ arg.kind = "energy"
    /\ Return("score", [ google1 |-> googleScoreOf(arg.e1), google2 |-> googleScoreOf(arg.e2),
                         chatgpt1 |-> chatgptScoreOf(arg.e1),
                         chatgpt2 |-> chatgptScoreOf(arg.e2) ])

GetEnvironmentalContext ==
    /\ arg.kind = "hour"
    /\ Return("getEnvironmentalContext", getEnvironmentalContext(hour))

NextEngine ==
    \/ AnalyzeQueryComplexity
    \/ EstimateResponseTokens
    \/ CalculateEnergyFootprint
    \/ CalculateScores
    \/ GetEnvironmentalContext

SpecEngine == InitEngine /\ [][NextEngine]_vars

----------------------------------------------------------------------------
(* Markup and URL conversions the glue code relies on *)

AsciiLetters == DOMAIN ToLower \cup {ToLower[c] : c \in DOMAIN ToLower}

\* the named character references the inputs use; each is also recognised
\* without its semicolon
NamedReferences ==
    { [name |-> <<"l","t">>, char |-> "<"],
      [name |-> <<"g","t">>, char |-> ">"],
      [name |-> <<"a","m","p">>, char |-> "&"] }

\* s has t at position i
HasAt(s, i, t) ==
    /\ i + Len(t) - 1 <= Len(s)
    /\ \A j \in 1..Len(t) : s[i + j - 1] = t[j]

\* The text of the nodes the HTML parser builds from markup s, read from
\* position i on.  "<" followed by a letter opens a tag and "</" followed by
\* a letter closes one: the tag runs to the next ">" (to the end of the markup
\* if there is none) and leaves no text.  "&" followed by a named reference is
\* replaced by the character it names.  Everything else is text.  (The inputs
\* have no "<!", "<?", quotes, numeric references, or tag names whose content
\* is parsed or rendered differently.)
RECURSIVE HtmlText(_, _)
HtmlText(s, i) ==
    IF i > Len(s) THEN <<>>
    ELSE IF /\ s[i] = "<"
            /\ \/ (i + 1 <= Len(s) /\ s[i + 1] \in AsciiLetters)
               \/ (i + 2 <= Len(s) /\ s[i + 1] = "/" /\ s[i + 2] \in AsciiLetters)
    THEN LET closing == {j \in (i + 1)..Len(s) : s[j] = ">"}
         IN  IF closing = {} THEN <<>>
             ELSE HtmlText(s, (CHOOSE j \in closing : \A k \in closing : j <= k) + 1)
    ELSE IF s[i] = "&" /\ \E r \in NamedReferences : HasAt(s, i + 1, r.name)
    THEN LET r    == CHOOSE r \in NamedReferences : HasAt(s, i + 1, r.name)
             next == i + 1 + Len(r.name)
         IN  <<r.char>> \o HtmlText(s, IF HasAt(s, next, <<";">>) THEN next + 1 ELSE next)
    ELSE <<s[i]>> \o HtmlText(s, i + 1)

\* element.innerHTML = markup, then element.innerText: the input keeps line
\* breaks and blanks as typed, and a single paragraph adds none
InnerTextOfMarkup(markup) == HtmlText(markup, 1)

\* `<p>${query}</p>`
ParagraphMarkup(q) == <<"<", "p", ">">> \o q \o <<"<", "/", "p", ">">>

\* characters encodeURIComponent leaves as they are
Unreserved ==
    AsciiLetters \cup {"0","1","2","3","4","5","6","7","8","9"}
                 \cup {"-", "_", ".", "!", "~", "*", "'", "(", ")"}

\* the escape sequences of the other characters the inputs use
PercentEscape ==
    [c \in {" ", "\t", "\n", "<", ">", "&", ";"} |->
        CASE c = " "  -> <<"%","2","0">>
          [] c = "\t" -> <<"%","0","9">>
          [] c = "\n" -> <<"%","0","A">>
          [] c = "<"  -> <<"%","3","C">>
          [] c = ">"  -> <<"%","3","E">>
          [] c = "&"  -> <<"%","2","6">>
          [] c = ";"  -> <<"%","3","B">>]

RECURSIVE encodeURIComponent(_)
encodeURIComponent(s) ==
    IF s = <<>> THEN <<>>
    ELSE (IF s[1] \in Unreserved THEN <<s[1]>> ELSE PercentEscape[s[1]])
            \o encodeURIComponent(Tail(s))

\* the inverse reading of a q parameter: each escape sequence stands for the
\* character it was made from
RECURSIVE decodeURIComponent(_)
decodeURIComponent(s) ==
    IF s = <<>> THEN <<>>
    ELSE IF s[1] = "%" /\ Len(s) >= 3
            /\ \E c \in DOMAIN PercentEscape : PercentEscape[c] = SubSeq(s, 1, 3)
    THEN <<CHOOSE c \in DOMAIN PercentEscape : PercentEscape[c] = SubSeq(s, 1, 3)>>
            \o decodeURIComponent(SubSeq(s, 4, Len(s)))
    ELSE <<s[1]>> \o decodeURIComponent(Tail(s))

\* `https://www.google.com/search?q=${encodeURIComponent(query)}`
SearchUrl(q) == [ page |-> "https://www.google.com/search", q |-> encodeURIComponent(q) ]

----------------------------------------------------------------------------
(* The page: host input, focus, overlays, and the handlers of the glue code *)

\* texts the user types into the host input
QueryPadded == <<" ", "h", "i", "\n">>
QueryMarkup == <<"a", "<", "b", ">", "c">>
QueryEntity == <<"a", "&", "l", "t", ";", "b">>
QueryLess   == <<"1", " ", "<", " ", "2">>

TypedTexts == {QueryHi, QueryPadded, QueryMarkup, QueryEntity, QueryLess}

\* hours at which the page's popups are opened
PageHours == {9, 19}

\* what a pointer click can land on while no overlay covers the page: the
\* input, a recognised send button, another button, anything else
ClickTargets == {"prompt-textarea", "send", "button", "page"}

\* elements for which event.target.closest('button') is not null
Buttons == {"send", "button", "ai-google-button", "ai-chatgpt-button", "expand-details"}

\* targetButton.matches('button[aria-label="Send message"], #composer-submit-button, ...')
IsSendButton(target) == target = "send"

KeyboardEvent(key, shiftKey, target, isTrusted) ==
    [ type |-> "keydown", key |-> key, shiftKey |-> shiftKey, target |-> target,
      isTrusted |-> isTrusted ]

MouseEvent(target) ==
    [ type |-> "click", key |-> "", shiftKey |-> FALSE, target |-> target, isTrusted |-> TRUE ]

\* new Event('input', { bubbles: true })
InputEvent(target) ==
    [ type |-> "input", key |-> "", shiftKey |-> FALSE, target |-> target, isTrusted |-> FALSE ]

\* The page as one task sees it, and what the task has done so far.  focus is
\* the element that holds focus when the task's handlers run.
Task(focus) ==
    [ inputField |-> inputField, activeElement |-> focus, overlays |-> overlays,
      stopped |-> FALSE, defaultPrevented |-> FALSE,
      mutated |-> FALSE, rebinds |-> 0, handlersRun |-> 0,
      shown |-> <<>>, opened |-> <<>>, sent |-> <<>>, dispatched |-> <<>>,
      toHost |-> <<>>, error |-> FALSE ]

\* The popup's layout as its markup gives it: #ai-energy-popup's width and
\* max-width, #content-container's direction and gap, the flex of
\* #left-column and #right-column, the right column's opacity and overflow,
\* the rotation in degrees of the #expand-arrow inside the button, and the
\* button's label.
MarkupLayout ==
    [ width |-> "520px", maxWidth |-> "90vw", flexDirection |-> "column", gap |-> "20px",
      leftFlex |-> "1", rightFlex |-> "0 0 0", opacity |-> "0", overflow |-> "hidden",
      arrow |-> 0, label |-> "How was this calculated?" ]

\* a popup as built by showPopup, before any click handler is attached
NewOverlay(q) ==
    [ query |-> q, googleHandlers |-> <<>>, chatgptHandlers |-> <<>>,
      layout |-> MarkupLayout, expandHandlers |-> <<>> ]

\* showPopup after the engine calls: the overlay is appended to the body, then
\* getElementById finds the first #expand-details, #ai-google-button and
\* #ai-chatgpt-button of the document, those of the first overlay, and gives
\* each a click handler.  The expand handler holds the new popup (by its
\* position among the overlays), its own isExpanded, and the first overlay's
\* arrow, container and columns; the other two have captured q.
showPopupOverlay(p, q) ==
    LET appended == Append(p.overlays, NewOverlay(q))
    IN  [p EXCEPT !.overlays = [appended EXCEPT ![1].expandHandlers =
                                                   Append(@, [ popup |-> Len(appended),
                                                               isExpanded |-> FALSE,
                                                               arrowAttached |-> TRUE ]),
                                                ![1].googleHandlers = Append(@, q),
                                                ![1].chatgptHandlers = Append(@, q)],
                  !.shown = Append(@, q),
                  !.mutated = TRUE]

\* the overlays that remain when the first is removed: the popups the expand
\* handlers hold are one position further down
Remaining(ovs) ==
    [ j \in 1..(Len(ovs) - 1) |->
        [ ovs[j + 1] EXCEPT !.expandHandlers =
            [ k \in 1..Len(ovs[j + 1].expandHandlers) |->
                [ ovs[j + 1].expandHandlers[k] EXCEPT !.popup = @ - 1 ] ] ] ]

\* getElementById('ai-energy-overlay') is the first overlay of the document
removePopup(p) ==
    IF p.overlays # <<>>
    THEN [p EXCEPT !.overlays = Remaining(@), !.mutated = TRUE]
    ELSE p

\* The k-th click handler of the #expand-details button of overlay i.  It
\* styles the popup it holds and the container, columns and arrow it found
\* by id; assigning the button's innerHTML replaces the button's children, so
\* the arrow every handler of this button holds is no longer in the
\* document, while the new arrow has the rotation the old one had.
expandHandler(p, i, k) ==
    LET h        == p.overlays[i].expandHandlers[k]
        popup    == IF h.popup \in 1..Len(p.overlays)
                    THEN [p.overlays EXCEPT ![h.popup].layout.width =
                                                IF h.isExpanded THEN "520px" ELSE "900px",
                                            ![h.popup].layout.maxWidth =
                                                IF h.isExpanded THEN "90vw" ELSE "95vw"]
                    ELSE p.overlays
        styled   == IF h.isExpanded
                    THEN [popup[i].layout EXCEPT
                              !.flexDirection = "column", !.gap = "32px",
                              !.leftFlex = "1", !.rightFlex = "0 0 0",
                              !.opacity = "0", !.overflow = "hidden",
                              !.arrow = IF h.arrowAttached THEN 0 ELSE @,
                              !.label = IF @ = "Hide details"
                                        THEN "How was this calculated?" ELSE @]
                    ELSE [popup[i].layout EXCEPT
                              !.flexDirection = "row", !.gap = "40px",
                              !.leftFlex = "0 0 400px", !.rightFlex = "1",
                              !.opacity = "1", !.overflow = "visible",
                              !.arrow = IF h.arrowAttached THEN 180 ELSE @,
                              !.label = IF @ = "How was this calculated?"
                                        THEN "Hide details" ELSE @]
        handlers == [ n \in 1..Len(popup[i].expandHandlers) |->
                        [ popup[i].expandHandlers[n] EXCEPT
                              !.arrowAttached = FALSE,
                              !.isExpanded = IF n = k THEN ~@ ELSE @ ] ]
    IN  [p EXCEPT !.overlays = [popup EXCEPT ![i].layout = styled,
                                             ![i].expandHandlers = handlers],
                  !.mutated = TRUE]

keydownListener_anyEnter(p, event) ==
    IF p.inputField = None THEN p
    ELSE IF p.activeElement # "prompt-textarea" THEN p
    ELSE IF event.key = "Enter"
    THEN showPopupOverlay([p EXCEPT !.stopped = TRUE, !.defaultPrevented = TRUE],
                          Trim(p.inputField.innerText))
    ELSE p

keydownListener_noStop(p, event) ==
    IF p.inputField = None THEN p
    ELSE IF p.activeElement # "prompt-textarea" THEN p
    ELSE IF event.key = "Enter" /\ ~event.shiftKey
    THEN showPopupOverlay([p EXCEPT !.defaultPrevented = TRUE],
                          Trim(p.inputField.innerText))
    ELSE p

\* the keydown listener interceptInputEvents adds to document (capture phase)
keydownListener(p, event) ==
    IF p.inputField = None THEN p
    ELSE IF p.activeElement # "prompt-textarea" THEN p
    ELSE IF event.key = "Enter" /\ ~event.shiftKey
    THEN showPopupOverlay([p EXCEPT !.stopped = TRUE, !.defaultPrevented = TRUE],
                          Trim(p.inputField.innerText))
    ELSE p

\* the click listener interceptInputEvents adds to document (capture phase)
clickListener(p, event) ==
    IF event.target \notin Buttons THEN p
    ELSE IF IsSendButton(event.target)
    THEN LET withheld == [p EXCEPT !.stopped = TRUE, !.defaultPrevented = TRUE]
         IN  IF withheld.inputField # None
             THEN showPopupOverlay(withheld, Trim(withheld.inputField.innerText))
             ELSE withheld
    ELSE p

\* new MutationObserver(() => interceptInputEvents()): the callback runs once
\* at the microtask checkpoint that follows a callback which changed the
\* children of a node under the body
Checkpoint(p) ==
    IF p.mutated THEN [p EXCEPT !.mutated = FALSE, !.rebinds = @ + 1] ELSE p

\* The n listeners of document for this event, in the order they were added.
\* stopImmediatePropagation keeps the remaining ones from running.  The
\* browser reaches a microtask checkpoint after each callback of an event it
\* dispatches itself; inside dispatchEvent() called from script it does not.
RECURSIVE RunListeners(_, _, _)
RunListeners(p, event, n) ==
    IF n = 0 \/ p.stopped THEN p
    ELSE Then(IF event.type = "keydown" THEN keydownListener(p, event)
              ELSE IF event.type = "click" THEN clickListener(p, event)
              ELSE p,
              LAMBDA after :
                 Then(IF event.isTrusted THEN Checkpoint(after) ELSE after,
                      LAMBDA next : RunListeners(next, event, n - 1)))

\* The event travels down from document: the extension's capture listeners
\* run first; unless one of them stopped it, the event goes on to the host
\* page's listeners.  listeners counts what was registered when the task began.
dispatchEvent(p, event, listeners) ==
    LET n == IF event.type \in DOMAIN listeners
             THEN listeners[event.type] + p.rebinds ELSE 0
    IN  Then(RunListeners([p EXCEPT !.stopped = FALSE, !.defaultPrevented = FALSE],
                          event, n),
             LAMBDA after :
                IF after.stopped THEN after ELSE [after EXCEPT !.toHost = Append(@, event)])

\* the body of sendQuery's if: the markup is assigned to innerHTML, an input
\* event and an Enter keydown are dispatched on the input
WriteAndSubmit(p, q, listeners) ==
    LET inputEvent == InputEvent("prompt-textarea")
        enterEvent == KeyboardEvent("Enter", FALSE, "prompt-textarea", FALSE)
    IN  Then([p EXCEPT !.inputField = [innerText |-> InnerTextOfMarkup(ParagraphMarkup(q))],
                       !.mutated = TRUE,
                       !.dispatched = Append(@, inputEvent)],
             LAMBDA written :
                Then(dispatchEvent(written, inputEvent, listeners),
                     LAMBDA afterInput :
                        Then(dispatchEvent([afterInput EXCEPT !.dispatched = Append(@, enterEvent)],
                                           enterEvent, listeners),
                             LAMBDA afterEnter :
                                [afterEnter EXCEPT !.stopped = p.stopped,
                                                   !.defaultPrevented = p.defaultPrevented])))

sendQuery_unguarded(p, q, listeners) ==
    IF p.inputField # None
    THEN WriteAndSubmit([p EXCEPT !.sent = Append(@, q)], q, listeners)
    ELSE [p EXCEPT !.sent = Append(@, q), !.error = TRUE]

\* sendQuery(query), called from a click handler
sendQuery(p, q, listeners) ==
    IF p.inputField # None
    THEN WriteAndSubmit([p EXCEPT !.sent = Append(@, q)], q, listeners)
    ELSE [p EXCEPT !.sent = Append(@, q)]

\* the click handler of #ai-google-button that captured q
googleButtonClick(p, q) ==
    removePopup([p EXCEPT !.opened = Append(@, SearchUrl(q))])

\* the click handler of #ai-chatgpt-button that captured q
chatgptButtonClick(p, q, listeners) ==
    Then(removePopup(p), LAMBDA removed : sendQuery(removed, q, listeners))

\* overlay.addEventListener('click', ...) with e.target === overlay
overlayClick(p) == removePopup(p)

\* the click handlers of one popup button, in the order they were attached
RECURSIVE RunClickHandlers(_, _, _, _)
RunClickHandlers(p, button, captured, listeners) ==
    IF captured = <<>> THEN p
    ELSE Then(IF button = "ai-google-button"
              THEN googleButtonClick(p, Head(captured))
              ELSE chatgptButtonClick(p, Head(captured), listeners),
              LAMBDA after :
                 Then(Checkpoint([after EXCEPT !.handlersRun = @ + 1]),
                      LAMBDA next :
                         RunClickHandlers(next, button, Tail(captured), listeners)))

\* the click handlers of the #expand-details button of overlay i, from the
\* k-th on, in the order they were attached
RECURSIVE RunExpandHandlers(_, _, _)
RunExpandHandlers(p, i, k) ==
    IF k > Len(p.overlays[i].expandHandlers) THEN p
    ELSE Then(expandHandler(p, i, k),
              LAMBDA after :
                 Then(Checkpoint([after EXCEPT !.handlersRun = @ + 1]),
                      LAMBDA next : RunExpandHandlers(next, i, k + 1)))

\* interceptInputEvents(): one more keydown and one more click listener
interceptInputEvents(listeners) ==
    [ keydown |-> listeners.keydown + 1, click |-> listeners.click + 1 ]

RECURSIVE Rebound(_, _)
Rebound(listeners, n) ==
    IF n = 0 THEN listeners ELSE Rebound(interceptInputEvents(listeners), n - 1)

\* The task ends: the page is as the handlers left it, the observer's
\* callbacks have added their listeners, and the last popup's engine results
\* are the ones on display.
Commit(r, op, event, clicked) ==
    /\ Len(r.overlays) <= MaxOverlays
    /\ documentListeners.keydown + r.rebinds <= MaxListeners
    /\ inputField' = r.inputField
    /\ activeElement' = r.activeElement
    /\ overlays' = r.overlays
    /\ documentListeners' = Rebound(documentListeners, r.rebinds)
    /\ UNCHANGED firstpopup
    /\ effects' = [ op |-> op, event |-> event,
                    before |-> [ inputField |-> inputField, activeElement |-> activeElement,
                                 popups |-> Len(overlays),
                                 layout |-> IF overlays = <<>> THEN None
                                            ELSE overlays[Len(overlays)].layout ],
                    clicked |-> clicked, handlersRun |-> r.handlersRun,
                    defaultPrevented |-> r.defaultPrevented,
                    shown |-> r.shown, opened |-> r.opened, sent |-> r.sent,
                    dispatched |-> r.dispatched, toHost |-> r.toHost, error |-> r.error ]
    /\ IF r.shown = <<>>
       THEN UNCHANGED engineVars
       ELSE \E h \in PageHours : showPopup(r.shown[Len(r.shown)], h)

\* the user replaces the input's text; the host's editor may or may not
\* change child lists while doing so
Type ==
    /\ inputField # None
    /\ activeElement = "prompt-textarea"
    /\ \E text \in TypedTexts, childList \in BOOLEAN :
          \E r \in {Checkpoint([Task(activeElement) EXCEPT !.inputField = [innerText |-> text],
                                                           !.mutated = childList])} :
              Commit(r, "type", None, None)

\* the user presses a key; the event's target is the focused element
Keydown ==
    \E key \in {"Enter", "a"}, shiftKey \in BOOLEAN :
        LET event == KeyboardEvent(key, shiftKey, activeElement, TRUE)
        IN  \E r \in {dispatchEvent(Task(activeElement), event, documentListeners)} :
                Commit(r, "keydown", event, None)

\* the user clicks on the host page, which no overlay covers; a click on the
\* input focuses it, a click elsewhere may take the focus away
Click ==
    /\ overlays = <<>>
    /\ \E target \in ClickTargets :
          /\ target = "prompt-textarea" => inputField # None
          /\ \E focus \in (IF target = "prompt-textarea" THEN {"prompt-textarea"}
                           ELSE {activeElement, "body"}) :
                LET event == MouseEvent(target)
                IN  \E r \in {dispatchEvent(Task(focus), event, documentListeners)} :
                        Commit(r, "click", event, None)

\* The user clicks a button of the popup on top (the overlays fill the
\* viewport at the same z-index, so the pointer reaches the last one only).
\* Where a pointer click focuses buttons the focus leaves the input,
\* elsewhere it stays.
ClickPopupButton(button) ==
    /\ overlays # <<>>
    /\ \E focus \in {activeElement, "body"} :
          LET top      == overlays[Len(overlays)]
              event    == MouseEvent(button)
              handlers == IF button = "ai-google-button"
                          THEN top.googleHandlers ELSE top.chatgptHandlers
          IN  \E captured \in {dispatchEvent(Task(focus), event, documentListeners)} :
              \E r \in {IF captured.stopped THEN captured
                         ELSE RunClickHandlers(captured, button, handlers,
                                               documentListeners)} :
                  Commit(r, "choice", event, [query |-> top.query])

ClickUseGoogle == ClickPopupButton("ai-google-button")

ClickUseChatGPT == ClickPopupButton("ai-chatgpt-button")

\* the user clicks "How was this calculated?" / "Hide details" in the popup
\* on top
ClickExpandDetails ==
    /\ overlays # <<>>
    /\ \E focus \in {activeElement, "body"} :
          LET top   == Len(overlays)
              event == MouseEvent("expand-details")
          IN  \E captured \in {dispatchEvent(Task(focus), event, documentListeners)} :
              \E r \in {IF captured.stopped THEN captured
                         ELSE RunExpandHandlers(captured, top, 1)} :
                  Commit(r, "expand", event, [query |-> overlays[top].query])

\* the user clicks the backdrop of the overlay on top
ClickOverlay ==
    /\ overlays # <<>>
    /\ LET event == MouseEvent("ai-energy-overlay")
       IN  \E captured \in {dispatchEvent(Task("body"), event, documentListeners)} :
           \E removed \in {IF captured.stopped THEN captured ELSE overlayClick(captured)} :
           \E r \in {Checkpoint(removed)} :
               Commit(r, "backdrop", event, [query |-> overlays[Len(overlays)].query])

\* the host page changes its own DOM: it removes its input, inserts one, or
\* changes something else under the body
HostMutation ==
    \E change \in {"remove", "insert", "other"} :
        /\ change = "remove" => inputField # None
        /\ change = "insert" => inputField = None
        /\ \E r \in {Checkpoint([Task(IF change = "remove" THEN "body" ELSE activeElement)
                                     EXCEPT !.inputField = IF change = "remove" THEN None
                                                           ELSE IF change = "insert"
                                                           THEN [innerText |-> <<>>]
                                                           ELSE @,
                                            !.mutated = TRUE])} :
              Commit(r, "mutation", None, None)

NextPage ==
    \/ Type
    \/ Keydown
    \/ Click
    \/ ClickUseGoogle
    \/ ClickUseChatGPT
    \/ ClickExpandDetails
    \/ ClickOverlay
    \/ HostMutation

SpecPage == Init /\ [][NextPage]_vars


----------------------------------------------------------------------------
(* The legacy content script, firstpopup.js, on the same page *)

\* The script's state: observing is whether the MutationObserver is connected,
\* calls counts the runs of interceptInput, inputListeners and buttonListeners
\* count the script's listeners on the input and on the send button now in
\* the document, sendButton is whether querySelector('button[class*="bottom"]')
\* finds a button, and detachedInput is the input interceptInput found, once
\* the host has taken it out of the document.
FirstpopupLoaded ==
    /\ inputField \in {None, [innerText |-> <<>>]}
    /\ activeElement = "body"
    /\ overlays = <<>>
    /\ documentListeners = [keydown |-> 0, click |-> 0]
    /\ firstpopup \in { [ observing |-> TRUE, calls |-> 0, inputListeners |-> 0,
                          buttonListeners |-> 0, sendButton |-> b, detachedInput |-> None ] :
                          b \in BOOLEAN }
    /\ effects = [ op |-> "load", event |-> None,
                   before |-> [ inputField |-> None, activeElement |-> "body", popups |-> 0,
                                layout |-> None ],
                   clicked |-> None, handlersRun |-> 0,
                   defaultPrevented |-> FALSE, shown |-> <<>>, opened |-> <<>>,
                   sent |-> <<>>, dispatched |-> <<>>, toHost |-> <<>>, error |-> FALSE ]

InitFirstpopup ==
    /\ ENERGY_MODELS = EnergyModelsInit
    /\ arg = None
    /\ ret = None
    /\ NoPopup
    /\ FirstpopupLoaded

\* the page and the script as one task sees them
FirstpopupTask(focus) == [fp |-> firstpopup] @@ Task(focus)

\* firstpopup.js showPopup(query): a static popup; the click handlers go to the
\* first #ai-google-button and #ai-chatgpt-button of the document
firstpopup_showPopup(p, q) ==
    LET appended == Append(p.overlays,
                           [query |-> q, googleHandlers |-> <<>>, chatgptHandlers |-> <<>>])
    IN  [p EXCEPT !.overlays = [appended EXCEPT ![1].googleHandlers = Append(@, q),
                                                ![1].chatgptHandlers = Append(@, q)],
                  !.shown = Append(@, q),
                  !.mutated = TRUE]

\* firstpopup.js removePopup()
firstpopup_removePopup(p) ==
    IF p.overlays # <<>>
    THEN [p EXCEPT !.overlays = Tail(@), !.mutated = TRUE]
    ELSE p

\* the keydown listener interceptInput adds to the input
inputKeydownListener(p, event) ==
    IF event.key = "Enter" /\ ~event.shiftKey
    THEN firstpopup_showPopup([p EXCEPT !.defaultPrevented = TRUE],
                              Trim(p.inputField.innerText))
    ELSE p

\* the click listener interceptInput adds to the send button; its inputField
\* is the input interceptInput found
sendButtonClickListener(p, event) ==
    LET found == IF p.fp.inputListeners > 0 THEN p.inputField ELSE p.fp.detachedInput
    IN  firstpopup_showPopup([p EXCEPT !.defaultPrevented = TRUE], Trim(found.innerText))

\* the script's n listeners on the event's target, none of which stops the
\* event
RECURSIVE RunTargetListeners(_, _, _)
RunTargetListeners(p, event, n) ==
    IF n = 0 THEN p
    ELSE Then(IF event.type = "keydown" THEN inputKeydownListener(p, event)
              ELSE sendButtonClickListener(p, event),
              LAMBDA after : RunTargetListeners(after, event, n - 1))

\* the event at its target: the script's listeners there, and the host's
firstpopup_dispatchEvent(p, event) ==
    LET n == IF event.type = "keydown" /\ event.target = "prompt-textarea"
             THEN p.fp.inputListeners
             ELSE IF event.type = "click" /\ event.target = "send"
             THEN p.fp.buttonListeners
             ELSE 0
    IN  Then(RunTargetListeners([p EXCEPT !.defaultPrevented = FALSE], event, n),
             LAMBDA after : [after EXCEPT !.toHost = Append(@, event)])

\* firstpopup.js sendQuery(query): the markup is assigned to innerHTML, an
\* input event is dispatched, then the send button is clicked, or, where
\* there is none, an Enter keydown is dispatched on the input
firstpopup_sendQuery(p, q) ==
    IF p.inputField # None
    THEN LET inputEvent == InputEvent("prompt-textarea")
             submission == IF p.fp.sendButton
                           THEN [MouseEvent("send") EXCEPT !.isTrusted = FALSE]
                           ELSE KeyboardEvent("Enter", FALSE, "prompt-textarea", FALSE)
         IN  Then([p EXCEPT !.sent = Append(@, q),
                            !.inputField = [innerText |-> InnerTextOfMarkup(ParagraphMarkup(q))],
                            !.mutated = TRUE,
                            !.dispatched = Append(@, inputEvent)],
                  LAMBDA written :
                     Then(firstpopup_dispatchEvent(written, inputEvent),
                          LAMBDA afterInput :
                             Then(firstpopup_dispatchEvent(
                                      [afterInput EXCEPT !.dispatched = Append(@, submission)],
                                      submission),
                                  LAMBDA afterSubmission :
                                     [afterSubmission EXCEPT
                                          !.defaultPrevented = p.defaultPrevented])))
    ELSE [p EXCEPT !.sent = Append(@, q)]

\* the click handler of #ai-google-button that captured q
firstpopup_googleButtonClick(p, q) ==
    firstpopup_removePopup([p EXCEPT !.opened = Append(@, SearchUrl(q))])

\* the click handler of #ai-chatgpt-button that captured q
firstpopup_chatgptButtonClick(p, q) ==
    Then(firstpopup_sendQuery(p, q), LAMBDA submitted : firstpopup_removePopup(submitted))

\* the click handlers one popup button had when the click began, in the order
\* they were attached
RECURSIVE RunFirstpopupClickHandlers(_, _, _)
RunFirstpopupClickHandlers(p, button, captured) ==
    IF captured = <<>> THEN p
    ELSE Then(IF button = "ai-google-button"
              THEN firstpopup_googleButtonClick(p, Head(captured))
              ELSE firstpopup_chatgptButtonClick(p, Head(captured)),
              LAMBDA after :
                 RunFirstpopupClickHandlers([after EXCEPT !.handlersRun = @ + 1],
                                            button, Tail(captured)))

\* interceptInput(): with the input in the document, one keydown listener on
\* it and, where there is a send button, one click listener on that
interceptInput(p) ==
    IF p.inputField # None
    THEN [p EXCEPT !.fp.calls = @ + 1,
                   !.fp.inputListeners = @ + 1,
                   !.fp.buttonListeners = IF p.fp.sendButton THEN @ + 1 ELSE @]
    ELSE [p EXCEPT !.fp.calls = @ + 1]

\* new MutationObserver(() => { if (inputField) { observer.disconnect();
\* interceptInput(); } }), run at the end of a task that changed child lists
\* while the observer was connected
firstpopup_observer(p) ==
    IF p.mutated /\ p.fp.observing
    THEN IF p.inputField # None
         THEN interceptInput([p EXCEPT !.mutated = FALSE, !.fp.observing = FALSE])
         ELSE [p EXCEPT !.mutated = FALSE]
    ELSE [p EXCEPT !.mutated = FALSE]

\* the task ends
FirstpopupCommit(r, op, event, clicked) ==
    /\ Len(r.overlays) <= MaxOverlays
    /\ inputField' = r.inputField
    /\ activeElement' = r.activeElement
    /\ overlays' = r.overlays
    /\ firstpopup' = r.fp
    /\ effects' = [ op |-> op, event |-> event,
                    before |-> [ inputField |-> inputField, activeElement |-> activeElement,
                                 popups |-> Len(overlays), layout |-> None ],
                    clicked |-> clicked, handlersRun |-> r.handlersRun,
                    defaultPrevented |-> r.defaultPrevented,
                    shown |-> r.shown, opened |-> r.opened, sent |-> r.sent,
                    dispatched |-> r.dispatched, toHost |-> r.toHost, error |-> r.error ]
    /\ UNCHANGED documentListeners
    /\ UNCHANGED engineVars

\* the user replaces the input's text; the host's editor may or may not
\* change child lists while doing so
FirstpopupType ==
    /\ inputField # None
    /\ activeElement = "prompt-textarea"
    /\ \E text \in TypedTexts, childList \in BOOLEAN :
          \E r \in {firstpopup_observer(
                        [FirstpopupTask(activeElement) EXCEPT
                             !.inputField = [innerText |-> text],
                             !.mutated = childList])} :
              FirstpopupCommit(r, "type", None, None)

\* the user presses a key; the event's target is the focused element
FirstpopupKeydown ==
    \E key \in {"Enter", "a"}, shiftKey \in BOOLEAN :
        LET event == KeyboardEvent(key, shiftKey, activeElement, TRUE)
        IN  \E r \in {firstpopup_observer(
                          firstpopup_dispatchEvent(FirstpopupTask(activeElement), event))} :
                FirstpopupCommit(r, "keydown", event, None)

\* the user clicks on the host page, which no overlay covers
FirstpopupClick ==
    /\ overlays = <<>>
    /\ \E target \in ClickTargets :
          /\ target = "prompt-textarea" => inputField # None
          /\ target = "send" => firstpopup.sendButton
          /\ \E focus \in (IF target = "prompt-textarea" THEN {"prompt-textarea"}
                           ELSE {activeElement, "body"}) :
                LET event == MouseEvent(target)
                IN  \E r \in {firstpopup_observer(
                                  firstpopup_dispatchEvent(FirstpopupTask(focus), event))} :
                        FirstpopupCommit(r, "click", event, None)

\* the user clicks a button of the popup on top
FirstpopupClickPopupButton(button) ==
    /\ overlays # <<>>
    /\ \E focus \in {activeElement, "body"} :
          LET top      == overlays[Len(overlays)]
              event    == MouseEvent(button)
              handlers == IF button = "ai-google-button"
                          THEN top.googleHandlers ELSE top.chatgptHandlers
          IN  \E r \in {firstpopup_observer(
                            RunFirstpopupClickHandlers(FirstpopupTask(focus), button,
                                                       handlers))} :
                  FirstpopupCommit(r, "choice", event, [query |-> top.query])

FirstpopupUseGoogle == FirstpopupClickPopupButton("ai-google-button")

FirstpopupUseChatGPT == FirstpopupClickPopupButton("ai-chatgpt-button")

\* the host page changes its own DOM: it takes out or puts in its input or
\* its send button, or changes something else under the body
FirstpopupHostMutation ==
    \E change \in {"remove input", "insert input", "remove button", "insert button", "other"} :
        /\ change = "remove input" => inputField # None
        /\ change = "insert input" => inputField = None
        /\ change = "remove button" => firstpopup.sendButton
        /\ change = "insert button" => ~firstpopup.sendButton
        /\ LET task == FirstpopupTask(IF change = "remove input" THEN "body" ELSE activeElement)
               changed ==
                   IF change = "remove input"
                   THEN [task EXCEPT !.inputField = None,
                                     !.fp.detachedInput =
                                         IF task.fp.inputListeners > 0 THEN task.inputField ELSE @,
                                     !.fp.inputListeners = 0]
                   ELSE IF change = "insert input"
                   THEN [task EXCEPT !.inputField = [innerText |-> <<>>]]
                   ELSE IF change = "remove button"
                   THEN [task EXCEPT !.fp.sendButton = FALSE, !.fp.buttonListeners = 0]
                   ELSE IF change = "insert button"
                   THEN [task EXCEPT !.fp.sendButton = TRUE]
                   ELSE task
           IN  \E r \in {firstpopup_observer([changed EXCEPT !.mutated = TRUE])} :
                   FirstpopupCommit(r, "mutation", None, None)

NextFirstpopup ==
    \/ FirstpopupType
    \/ FirstpopupKeydown
    \/ FirstpopupClick
    \/ FirstpopupUseGoogle
    \/ FirstpopupUseChatGPT
    \/ FirstpopupHostMutation

SpecFirstpopup == InitFirstpopup /\ [][NextFirstpopup]_vars

----------------------------------------------------------------------------
(* What a query is known to contain, from the way it was built *)

Returned(fn) == ret # None /\ ret.fn = fn

BuiltWordCount == IF arg.words = {} /\ arg.fill = 0 THEN 1 ELSE Cardinality(arg.words) + arg.fill

BuiltWordBonus ==
    IF BuiltWordCount > 100 THEN 150 ELSE IF BuiltWordCount > 50 THEN 50 ELSE 0

BuiltFamilyWeight ==
      (IF arg.words \cap {1, 2} # {} THEN 150 ELSE 0)
    + (IF 3 \in arg.words THEN 100 ELSE 0)
    + (IF 4 \in arg.words THEN 50 ELSE 0)
    + (IF 5 \in arg.words THEN 50 ELSE 0)

\* what each step of analyzeQueryComplexity adds for q (hundredths), before the
\* cap
ComplexityContributions(q) ==
    LET wordCount == SplitLength(Trim(q))
    IN  [ base       |-> 100,
          length     |-> (IF wordCount > 50 THEN 50 ELSE 0) + (IF wordCount > 100 THEN 100 ELSE 0),
          code       |-> IF RegexTest(CodePattern, q) THEN 150 ELSE 0,
          creative   |-> IF RegexTest(CreativePattern, q) THEN 100 ELSE 0,
          analytical |-> IF RegexTest(AnalysisPattern, q) THEN 50 ELSE 0,
          depth      |-> IF RegexTest(ComplexPattern, q) THEN 50 ELSE 0 ]

ContributionsSum(c) ==
    c.base + c.length + c.code + c.creative + c.analytical + c.depth

\* numerator and denominator of 500 * complexity * m
BuiltTokensNum ==
    500 * arg.complexity * (IF 2 \in arg.words THEN 15 ELSE 1)
        * (IF 6 \in arg.words THEN 12 ELSE 1) * (IF 7 \in arg.words THEN 3 ELSE 1)

BuiltTokensDen ==
    100 * (IF 2 \in arg.words THEN 10 ELSE 1)
        * (IF 6 \in arg.words THEN 10 ELSE 1) * (IF 7 \in arg.words THEN 10 ELSE 1)

\* s = clamp(ceil(1 + 2*log10(energy / 0.04)), 1, 6), energy in mWh:
\* 10^(s-2) < (energy/40)^2 <= 10^(s-1), open below for s = 1 and above for s = 6
IsSharedAnchorScore(energy, s) ==
    /\ s \in 1..6
    /\ s > 1 => energy * energy > 1600 * Pow10(s - 2)
    /\ s < 6 => energy * energy <= 1600 * Pow10(s - 1)

\* the last task was a submit gesture on the host page: Enter without Shift
\* while the input had focus, or a click on a recognised send button
IsSubmitGesture ==
    \/ /\ effects.op = "keydown"
       /\ effects.event.key = "Enter"
       /\ ~effects.event.shiftKey
       /\ effects.before.activeElement = "prompt-textarea"
    \/ /\ effects.op = "click"
       /\ IsSendButton(effects.event.target)

\* an event on which the host page sends the input's text to the assistant
IsSubmission(e) ==
    \/ e.type = "keydown" /\ e.key = "Enter" /\ ~e.shiftKey /\ e.target = "prompt-textarea"
    \/ e.type = "click" /\ IsSendButton(e.target)

\* the last task was a click on the given button of the popup on top
Chose(button) == effects.op = "choice" /\ effects.event.target = button

\* the layout the expand branch of the control's handler sets
ExpandedLayout ==
    [ width |-> "900px", maxWidth |-> "95vw", flexDirection |-> "row", gap |-> "40px",
      leftFlex |-> "0 0 400px", rightFlex |-> "1", opacity |-> "1", overflow |-> "visible",
      arrow |-> 180, label |-> "Hide details" ]

----------------------------------------------------------------------------
(* Claims *)

\* C1: for every query (empty, whitespace-only, every keyword family with more
\* than 100 words, ...) analyzeQueryComplexity returns c with 1.0 <= c <= 4.0.
C1_ComplexityInRange ==
    /\ Returned("analyzeQueryComplexity") => ret.value >= 100 /\ ret.value <= 400
    /\ Returned("calculateEnergyFootprint") =>
          /\ ret.value.google.complexity >= 100 /\ ret.value.google.complexity <= 400
          /\ ret.value.chatgpt.complexity = ret.value.google.complexity

\* every family matched, more than 100 words: the cap is what keeps c at 4.0
C1_Witness ==
    /\ Returned("analyzeQueryComplexity")
    /\ {2, 3, 4, 5} \subseteq arg.words
    /\ BuiltWordCount > 100
    /\ ret.value = 400

\* C2: for every energy >= 0 the score is an integer in 1..6 and is
\* non-decreasing in energyWh; every score calculateEnergyFootprint returns,
\* for either service, lies in 1..6.
C2_ScoreBoundedMonotone ==
    /\ Returned("score") =>
          /\ {ret.value.google1, ret.value.google2,
              ret.value.chatgpt1, ret.value.chatgpt2} \subseteq 1..6
          /\ ret.value.google1 <= ret.value.google2
          /\ ret.value.chatgpt1 <= ret.value.chatgpt2
    /\ Returned("calculateEnergyFootprint") =>
          /\ ret.value.google.score \in 1..6
          /\ ret.value.chatgpt.score \in 1..6

\* a larger energy with a strictly larger score, the larger one clamped at 6
C2_Witness ==
    /\ Returned("score")
    /\ arg.e1 < arg.e2
    /\ ret.value.chatgpt1 = 3
    /\ ret.value.chatgpt2 = 6

\* C3: both services' badge scores are the same mapping
\* clamp(ceil(1 + 2*log10(energyWh / 0.04)), 1, 6), anchored on 0.04 Wh: equal
\* energies get equal scores whichever service they belong to, and no
\* service's own base energy enters its score.
C3_SharedAnchor ==
    /\ Returned("score") =>
          /\ ret.value.google1 = ret.value.chatgpt1
          /\ ret.value.google2 = ret.value.chatgpt2
          /\ IsSharedAnchorScore(arg.e1, ret.value.google1)
          /\ IsSharedAnchorScore(arg.e1, ret.value.chatgpt1)
          /\ IsSharedAnchorScore(arg.e2, ret.value.google2)
          /\ IsSharedAnchorScore(arg.e2, ret.value.chatgpt2)
    /\ Returned("calculateEnergyFootprint") =>
          /\ IsSharedAnchorScore(ret.value.google.energyWh, ret.value.google.score)
          /\ IsSharedAnchorScore(ret.value.chatgpt.energyWh, ret.value.chatgpt.score)

\* 2.5 Wh scored as a search energy and as an assistant energy: 5 both times
C3_Witness ==
    /\ Returned("score")
    /\ arg.e1 = 2500
    /\ ret.value.google1 = 5
    /\ ret.value.chatgpt1 = 5

C7_ScoreIndependentOfHour ==
    (pinned # None /\ energyData # None /\ pinned.query = query) =>
        /\ pinned.energyData.google.energyWh = energyData.google.energyWh
        /\ pinned.energyData.google.carbonGrams = energyData.google.carbonGrams
        /\ pinned.energyData.google.score = energyData.google.score
        /\ pinned.energyData.chatgpt.energyWh = energyData.chatgpt.energyWh
        /\ pinned.energyData.chatgpt.carbonGrams = energyData.chatgpt.carbonGrams
        /\ pinned.energyData.chatgpt.score = energyData.chatgpt.score

\* one query shown in the solar peak and again at peak demand: the displayed
\* assistant carbon differs
C7_Witness ==
    /\ pinned # None
    /\ energyData # None
    /\ pinned.query = query
    /\ pinned.envContext.intensityMultiplier = 8
    /\ envContext.intensityMultiplier = 13
    /\ pinned.adjustedChatGPTCarbon < adjustedChatGPTCarbon
    /\ pinned.energyData.chatgpt.score = energyData.chatgpt.score

\* C8 as stated: the displayed carbon figure of each service is exactly its
\* unadjusted carbonGrams times the context's multiplier.
C8_DisplayedCarbonExact ==
    energyData # None =>
        /\ adjustedGoogleCarbon * 100000 =
              energyData.google.carbonGrams * envContext.intensityMultiplier
        /\ adjustedChatGPTCarbon * 100000 =
              energyData.chatgpt.carbonGrams * envContext.intensityMultiplier

\* C8 as amended: the displayed carbon figure of each service is its unadjusted
\* carbonGrams ((energyWh / 1000) * 367) times the context's multiplier for
\* that hour, rounded to two decimals: within 0.005 g of the product.
C8_DisplayedCarbonRounded ==
    energyData # None =>
        LET googleExact  == energyData.google.carbonGrams * envContext.intensityMultiplier
            chatgptExact == energyData.chatgpt.carbonGrams * envContext.intensityMultiplier
        IN  /\ energyData.google.carbonGrams = energyData.google.energyWh * 367
            /\ energyData.chatgpt.carbonGrams = energyData.chatgpt.energyWh * 367
            /\ envContext = getEnvironmentalContext(hour)
            /\ 2 * (adjustedGoogleCarbon * 100000 - googleExact) <= 100000
            /\ 2 * (googleExact - adjustedGoogleCarbon * 100000) <= 100000
            /\ 2 * (adjustedChatGPTCarbon * 100000 - chatgptExact) <= 100000
            /\ 2 * (chatgptExact - adjustedChatGPTCarbon * 100000) <= 100000

\* "hi" at peak demand: 2.5 Wh, 0.9175 g, times 1.3 = 1.19275 g, shown as 1.19
C8_Witness ==
    /\ energyData # None
    /\ query = QueryHi
    /\ envContext.intensityMultiplier = 13
    /\ energyData.chatgpt.carbonGrams = 917500
    /\ adjustedChatGPTCarbon = 119

\* C9: the context is a total function of the hour: 10..16 give "Lower (Solar
\* Peak)" and 0.8, 18..22 give "Higher (Peak Demand)" and 1.3, every other
\* hour (0..9, 17, 23, negative, 24 and above) gives "Medium" and 1.0; label,
\* multiplier and description always belong to the same bucket.
C9_ContextPartition ==
    Returned("getEnvironmentalContext") =>
        LET h == arg.hour
        IN  /\ h \in 10..16 =>
                  ret.value = [ gridIntensity |-> "Lower (Solar Peak)",
                                intensityMultiplier |-> 8,
                                timeContext |-> "Solar energy is more available now" ]
            /\ h \in 18..22 =>
                  ret.value = [ gridIntensity |-> "Higher (Peak Demand)",
                                intensityMultiplier |-> 13,
                                timeContext |-> "Peak energy demand period" ]
            /\ h \notin (10..16) \cup (18..22) =>
                  ret.value = [ gridIntensity |-> "Medium",
                                intensityMultiplier |-> 10,
                                timeContext |-> "Standard grid mix" ]

\* the inclusive upper end of the solar peak
C9_Witness ==
    /\ Returned("getEnvironmentalContext")
    /\ arg.hour = 16
    /\ ret.value.intensityMultiplier = 8

\* C10: the estimation is pure: an evaluation repeated with the same (query,
\* hour), with any other evaluations in between, returns the same results for
\* both services and the context, and no evaluation writes the configuration.
C10_Pure ==
    /\ ENERGY_MODELS = EnergyModelsInit
    /\ (pinned # None /\ pinned.query = query /\ pinned.hour = hour) =>
          pinned = Evaluation

\* the pinned evaluation, one with other inputs, and the first inputs again
C10_Witness ==
    /\ pinned # None
    /\ between
    /\ pinned.query = query
    /\ pinned.hour = hour
    /\ query = QueryScenarioB

\* C11: scenario A: the query "hi" shown at hour 9 has complexity 1.0, an
\* assistant estimate of 500 tokens, assistant energy 2.5 Wh, search energy
\* 0.04 Wh, context "Medium" with multiplier 1.0, search score 1 and
\* assistant score 5.
C11_ScenarioA ==
    (energyData # None /\ query = QueryHi /\ hour = 9) =>
        /\ energyData.chatgpt.complexity = 100
        /\ energyData.google.complexity = 100
        /\ energyData.chatgpt.estimatedTokens = 500
        /\ energyData.chatgpt.energyWh = 2500
        /\ energyData.google.energyWh = 40
        /\ envContext.gridIntensity = "Medium"
        /\ envContext.intensityMultiplier = 10
        /\ energyData.google.score = 1
        /\ energyData.chatgpt.score = 5

\* the popup of "hi" opened at nine o'clock
C11_Witness ==
    /\ energyData # None
    /\ query = QueryHi
    /\ hour = 9
    /\ adjustedChatGPTCarbon = 92

\* C12 as stated: scenario B: for "write a detailed comprehensive analysis of
\* code performance" at hour 13 the contributions are base 1 + code 1.5 +
\* creative 1.0 + analytical 0.5 (matched by "analysis") + depth 0.5, an
\* unclamped sum of 4.5 clamped to 4.0; tokens 3000, assistant energy 12.5 Wh,
\* assistant score 6, context "Lower (Solar Peak)" with multiplier 0.8.
C12_ScenarioBAsStated ==
    (energyData # None /\ query = QueryScenarioB /\ hour = 13) =>
        /\ ComplexityContributions(query) =
              [ base |-> 100, length |-> 0, code |-> 150, creative |-> 100,
                analytical |-> 50, depth |-> 50 ]
        /\ ContributionsSum(ComplexityContributions(query)) = 450
        /\ energyData.chatgpt.complexity = 400
        /\ energyData.chatgpt.estimatedTokens = 3000
        /\ energyData.chatgpt.energyWh = 12500
        /\ energyData.chatgpt.score = 6
        /\ envContext.gridIntensity = "Lower (Solar Peak)"
        /\ envContext.intensityMultiplier = 8

\* C12 as amended: scenario B: the contributions are base 1 + code 1.5 +
\* creative 1.0 ("write") + depth 0.5; the analytical family is not matched
\* ("analysis" contains none of its keywords), so the sum is exactly 4.0 and
\* the clamp changes nothing; tokens 3000, assistant energy 12.5 Wh, assistant
\* score 6, context "Lower (Solar Peak)" with multiplier 0.8.
C12_ScenarioB ==
    (energyData # None /\ query = QueryScenarioB /\ hour = 13) =>
        /\ ComplexityContributions(query) =
              [ base |-> 100, length |-> 0, code |-> 150, creative |-> 100,
                analytical |-> 0, depth |-> 50 ]
        /\ ContributionsSum(ComplexityContributions(query)) = 400
        /\ energyData.chatgpt.complexity = 400
        /\ energyData.chatgpt.estimatedTokens = 3000
        /\ energyData.chatgpt.energyWh = 12500
        /\ energyData.chatgpt.score = 6
        /\ envContext.gridIntensity = "Lower (Solar Peak)"
        /\ envContext.intensityMultiplier = 8

\* the popup of scenario B opened at one o'clock in the afternoon
C12_Witness ==
    /\ energyData # None
    /\ query = QueryScenarioB
    /\ hour = 13
    /\ energyData.chatgpt.energyWh = 12500
    /\ envContext.intensityMultiplier = 8

\* C19: the README's example: "Write a Python script to analyze CSV data and
\* create visualizations" yields complexity 3.0, about 2,250 tokens, an
\* assistant energy of about 34 Wh and a search energy of about 0.45 Wh
\* ("about": within a tenth of the figure).
C19_ReadmeExample ==
    (energyData # None /\ query = QueryReadme) =>
        /\ energyData.chatgpt.complexity = 300
        /\ energyData.chatgpt.estimatedTokens \in 2025..2475
        /\ energyData.chatgpt.energyWh \in 30600..37400
        /\ energyData.google.energyWh \in 405..495

\* C20: the energy figure the popup shows for each service, labelled Wh,
\* equals that service's energyWh (2.5 Wh is shown as 2.5 Wh), up to the
\* rounding of the one decimal shown.
C20_EnergyShownInWh ==
    energyData # None =>
        \A service \in {"google", "chatgpt"} :
            LET shown == generateConciseExplanation(service, energyData[service])
            IN  /\ shown.unit = "Wh"
                /\ shown.energyTenths * 100 - energyData[service].energyWh <= 50
                /\ energyData[service].energyWh - shown.energyTenths * 100 <= 50

\* C13: while the host input exists, every submit gesture (Enter without
\* Shift with the input focused, or a click on a recognised send button) is
\* withheld from the host page (default prevented, stopped in the capture
\* phase) and opens the popup with the trimmed input text as query; any other
\* key press (Shift+Enter, another key, a key while the input is not focused)
\* passes through untouched; so the only submission that ever reaches the
\* host page is the one sendQuery makes after "Use ChatGPT" was chosen.
C13_SubmitGesturesWithheld ==
    /\ (IsSubmitGesture /\ effects.before.inputField # None) =>
          LET text == Trim(effects.before.inputField.innerText)
          IN  /\ effects.defaultPrevented
              /\ effects.toHost = <<>>
              /\ effects.shown = <<text>>
              /\ Len(overlays) = effects.before.popups + 1
              /\ overlays[Len(overlays)].query = text
              /\ energyData # None
              /\ query = text
    /\ (effects.op = "keydown" /\ ~IsSubmitGesture) =>
          /\ ~effects.defaultPrevented
          /\ effects.toHost = <<effects.event>>
          /\ effects.shown = <<>>
          /\ Len(overlays) = effects.before.popups
          /\ inputField = effects.before.inputField
    /\ \A i \in 1..Len(effects.toHost) :
          IsSubmission(effects.toHost[i]) =>
              /\ Chose("ai-chatgpt-button")
              /\ ~effects.toHost[i].isTrusted
              /\ effects.sent # <<>>

\* Enter pressed in the focused input holding " hi\n": withheld, and the
\* popup of "hi" is on display
C13_Witness ==
    /\ IsSubmitGesture
    /\ effects.op = "keydown"
    /\ effects.before.inputField = [innerText |-> QueryPadded]
    /\ effects.defaultPrevented
    /\ query = QueryHi
    /\ overlays # <<>>

\* C14: after any number of host-page mutations (each re-running
\* interceptInputEvents) and earlier gestures, one key press or one click of
\* the user triggers at most one engine evaluation and opens at most one
\* popup.
C14_OneEvaluationPerGesture ==
    effects.op \in {"keydown", "click"} =>
        /\ Len(effects.shown) <= 1
        /\ Len(overlays) <= effects.before.popups + 1
        /\ IsSubmitGesture /\ effects.before.inputField # None => Len(effects.shown) = 1

\* a submit gesture after three re-registrations of the listeners and a popup of
\* an earlier gesture still displayed: one evaluation
C14_Witness ==
    /\ IsSubmitGesture
    /\ documentListeners.keydown >= 4
    /\ effects.before.popups = 1
    /\ Len(effects.shown) = 1
    /\ Len(overlays) = 2

\* C15: "Use ChatGPT" chosen while the host input exists: the popup is
\* removed, the query is written into the input and one Enter keydown is
\* dispatched on it; that event reaches the host page and is not captured by
\* the extension's keydown listener, so afterwards no popup is displayed and
\* no engine evaluation has been triggered, whichever element holds focus.
C15_SimulatedSubmitNotRecaptured ==
    (Chose("ai-chatgpt-button") /\ effects.before.inputField # None) =>
        /\ effects.sent = <<effects.clicked.query>>
        /\ Cardinality({i \in 1..Len(effects.dispatched) :
                            effects.dispatched[i].type = "keydown"}) = 1
        /\ \E i \in 1..Len(effects.toHost) :
                effects.toHost[i].type = "keydown" /\ IsSubmission(effects.toHost[i])
        /\ effects.shown = <<>>
        /\ overlays = <<>>

\* C16: "Use Google" chosen in a displayed popup: exactly one search page is
\* opened, with the popup's query percent-encoded as the q parameter, the
\* popup is removed, the host input is unchanged and no submission event
\* reaches the host page; after any earlier gestures.
C16_UseGoogleOpensOnePage ==
    Chose("ai-google-button") =>
        /\ Len(effects.opened) = 1
        /\ effects.opened[1].page = "https://www.google.com/search"
        /\ \A i \in 1..Len(effects.opened[1].q) :
                effects.opened[1].q[i] \in Unreserved \cup {"%"}
        /\ decodeURIComponent(effects.opened[1].q) = effects.clicked.query
        /\ Len(overlays) = effects.before.popups - 1
        /\ inputField = effects.before.inputField
        /\ effects.dispatched = <<>>
        /\ \A i \in 1..Len(effects.toHost) : ~IsSubmission(effects.toHost[i])

\* C17: an absent element makes the action a no-op, without error and
\* without evaluation: sendQuery with no host input writes nothing and
\* dispatches nothing; a key press or a send-button click with no host input
\* opens no popup; removePopup with no overlay changes nothing.
C17_AbsentElementsSkipped ==
    /\ ~effects.error
    /\ (effects.op = "choice" /\ effects.sent # <<>> /\ effects.before.inputField = None) =>
          /\ inputField = None
          /\ effects.dispatched = <<>>
          /\ effects.shown = <<>>
          /\ \A i \in 1..Len(effects.toHost) : ~IsSubmission(effects.toHost[i])
    /\ (effects.op \in {"keydown", "click"} /\ effects.before.inputField = None) =>
          /\ effects.shown = <<>>
          /\ Len(overlays) = effects.before.popups
          /\ inputField = None
    /\ LET bare == [Task(activeElement) EXCEPT !.overlays = <<>>]
       IN  removePopup(bare) = bare

\* the host removed its input while a popup was displayed, and the user then
\* chose "Use ChatGPT": sendQuery ran and did nothing
C17_Witness ==
    /\ Chose("ai-chatgpt-button")
    /\ effects.before.inputField = None
    /\ effects.sent # <<>>
    /\ effects.handlersRun = 1
    /\ overlays = <<>>

\* C18: reinjection is literal: after sendQuery(q), for every captured q
\* (with or without markup characters), the text of the host input is q, and
\* capturing it again gives q.
C18_ReinjectionLiteral ==
    (effects.op = "choice" /\ Len(effects.sent) = 1 /\ effects.before.inputField # None) =>
        /\ inputField # None
        /\ inputField.innerText = effects.sent[1]
        /\ Trim(inputField.innerText) = effects.sent[1]

\* C21: re-binding is idempotent: after any number of MutationObserver
\* callbacks the document has exactly one keydown and one click capture
\* listener of the extension, as after the initial call.
C21_RebindingIdempotent ==
    documentListeners = [keydown |-> 1, click |-> 1]

\* C22: at most one popup overlay is attached to the page in every reachable
\* state, and after a dismissing action (Use Google, Use ChatGPT, a click on
\* the backdrop) none remains, also when a second submit gesture was made
\* while a popup was displayed.
C22_AtMostOneOverlay ==
    /\ Len(overlays) <= 1
    /\ effects.op \in {"choice", "backdrop"} => overlays = <<>>

\* C23: the detailed-calculation breakdown of the assistant computes its
\* "Environmental Score" against the assistant's own base energy (0.5 Wh), not
\* the shared 0.04 Wh anchor of the badge (the breakdown of the search service
\* uses the anchor and agrees with its badge); so there is a query whose
\* assistant breakdown score differs from the assistant badge of its popup.
C23_BreakdownUsesOwnBase ==
    energyData # None =>
        LET google  == generateDetailedCalculation("google", energyData.google, envContext)
            chatgpt == generateDetailedCalculation("chatgpt", energyData.chatgpt, envContext)
        IN  /\ chatgpt.totalEnergy = energyData.chatgpt.energyWh
            /\ chatgpt.scoreCalculation = ClampedLogScore(energyData.chatgpt.energyWh, 500)
            /\ energyData.chatgpt.score = ClampedLogScore(energyData.chatgpt.energyWh, 40)
            /\ google.totalEnergy = energyData.google.energyWh
            /\ google.scoreCalculation = energyData.google.score

\* "hi": 2.5 Wh; badge ceil(1 + 2 log10(62.5)) = 5, breakdown
\* ceil(1 + 2 log10(5)) = 3
C23_Witness ==
    /\ energyData # None
    /\ query = QueryHi
    /\ energyData.chatgpt.score = 5
    /\ generateDetailedCalculation("chatgpt", energyData.chatgpt, envContext).scoreCalculation = 3

\* C24: for every query the search score is 1 or 2, and 1 exactly when
\* complexity <= 2; the assistant score is 4, 5 or 6; so the assistant score
\* is strictly greater than the search score and the popup's score >= 4
\* styling condition of the assistant card is always true.
C24_ScoreRanges ==
    Returned("calculateEnergyFootprint") =>
        LET data == ret.value
        IN  /\ data.google.score \in {1, 2}
            /\ data.google.score = 1 <=> data.google.complexity <= 200
            /\ data.chatgpt.score \in {4, 5, 6}
            /\ data.chatgpt.score > data.google.score
            /\ data.chatgpt.score >= 4

\* a short-answer query of complexity above 2, where the two scores are
\* closest: search 2, assistant 5
C24_Witness ==
    /\ Returned("calculateEnergyFootprint")
    /\ ret.value.google.complexity > 200
    /\ ret.value.google.score = 2
    /\ ret.value.chatgpt.score = 5
    /\ ret.value.chatgpt.estimatedTokens < 500

\* C25: the popup's expand/collapse control is a two-state machine: a popup
\* starts collapsed, every click on the control flips between collapsed and
\* expanded, and the layout (popup width, container direction and gap, column
\* sizes, right-column visibility, arrow rotation, button label) is always
\* one of two configurations, the collapsed one being the initial layout (so
\* an even number of clicks restores it).
C25_ExpandControlTwoStates ==
    /\ \A i \in 1..Len(overlays) : overlays[i].layout \in {MarkupLayout, ExpandedLayout}
    /\ effects.shown # <<>> => overlays[Len(overlays)].layout = MarkupLayout
    /\ effects.op = "expand" =>
          /\ effects.before.layout = MarkupLayout =>
                overlays[Len(overlays)].layout = ExpandedLayout
          /\ effects.before.layout = ExpandedLayout =>
                overlays[Len(overlays)].layout = MarkupLayout

\* C26: in the legacy content script the listeners are bound at most once
\* (the observer disconnects before interceptInput runs), and "Use ChatGPT"
\* chosen in the popup while the host input exists ends with the query handed
\* to the input, a submission triggered on the host page and no popup overlay
\* left: the script's own listeners do not re-open a popup for the simulated
\* submission.
C26_LegacySubmitNotRecaptured ==
    /\ firstpopup.calls <= 1
    /\ firstpopup.calls = 1 => ~firstpopup.observing
    /\ firstpopup.inputListeners <= 1
    /\ firstpopup.buttonListeners <= 1
    /\ (Chose("ai-chatgpt-button") /\ effects.before.inputField # None) =>
          /\ effects.sent = <<effects.clicked.query>>
          /\ inputField # None
          /\ \E i \in 1..Len(effects.toHost) : IsSubmission(effects.toHost[i])
          /\ effects.shown = <<>>
          /\ overlays = <<>>

====
